---- MODULE Spec2Model ----
(***************************************************************************)
(* speak-mcp: capability discovery and request dispatch.                   *)
(*                                                                         *)
(* The model follows src/src/main.rs (the MCP server) and the part of      *)
(* src/speak-config/src/main.rs that writes the config file.  Every await  *)
(* of the server is a step boundary: an HTTP exchange is sent in one       *)
(* action and its response is consumed in the next one.  Engines, the      *)
(* config file and the playback command are the environment.               *)
(*                                                                         *)
(* Units: a speed is held in tenths (10 stands for 1.0).                   *)
(***************************************************************************)
EXTENDS Integers, Sequences, FiniteSets, TLC

\* ------------------------------------------------------------------------
\* Bounds of the model
\* ------------------------------------------------------------------------
MaxSpeakerId == 2      \* style ids are 1..MaxSpeakerId
MaxEntries == 2        \* entries of a catalog (pure schema check)
MaxStyles == 2         \* styles of one entry (pure schema check)

\* ------------------------------------------------------------------------
\* Program constants
\* ------------------------------------------------------------------------
VOICEVOX_PORT == 50021
AIVIS_PORT == 10101
FallbackSpeaker == 1
DefaultSpeedScale == 10

Ports == {VOICEVOX_PORT, AIVIS_PORT}

\* ------------------------------------------------------------------------
\* Option<T>
\* ------------------------------------------------------------------------
None == <<>>
Some(x) == <<x>>

\* Option::or
Option_or(a, b) == IF a # None THEN a ELSE b

\* Option::unwrap_or
Option_unwrap_or(a, d) == IF a # None THEN a[1] ELSE d

SpeakerIds == 1..MaxSpeakerId
OptSpeakerIds == {None} \cup {Some(i) : i \in SpeakerIds}

Speeds == {10, 15}
OptSpeeds == {None} \cup {Some(s) : s \in Speeds}

\* ------------------------------------------------------------------------
\* JSON values, as far as the program looks into them
\* ------------------------------------------------------------------------
NotJson == [t |-> "invalid"]
JNull == [t |-> "null"]
JArray == [t |-> "array"]
JString == [t |-> "string"]
JNumber == [t |-> "number"]
JObject(f) == [t |-> "object", v |-> f]

\* ------------------------------------------------------------------------
\* Config file and AppConfig
\* ------------------------------------------------------------------------
Unreadable == [t |-> "unreadable"]

ConfigObject(vvKey, vv, aivisKey, aivis) ==
    JObject([k \in {vvKey, aivisKey} |-> IF k = vvKey THEN vv ELSE aivis])

\* the (voicevox, aivis) defaults that files and the config editor hold
DefaultPairs ==
    {<<None, None>>, <<Some(1), Some(MaxSpeakerId)>>}
    \cup {<<Some(i), None>> : i \in SpeakerIds}
    \cup {<<None, Some(i)>> : i \in SpeakerIds}

\* what the config editor writes, and what the interface section documents
SnakeObjects == { ConfigObject("voicevox_default_speaker", p[1], "aivis_default_speaker", p[2]) :
                     p \in DefaultPairs }
CamelObjects == { ConfigObject("voicevoxDefaultSpeaker", Some(MaxSpeakerId),
                               "aivisDefaultSpeaker", Some(MaxSpeakerId)) }

\* a file that sets the voice of the native tool
ConfigVoices == {"Otoya"}
VoiceObjects == { JObject([k \in {"macos_default_voice"} |-> Some(v)]) : v \in ConfigVoices }

HomeFiles == {Unreadable, NotJson} \cup SnakeObjects \cup CamelObjects \cup VoiceObjects
ExeFiles == {Unreadable, ConfigObject("voicevox_default_speaker", Some(MaxSpeakerId),
                                      "aivis_default_speaker", None)}

AppConfig_default ==
    [voicevox_default_speaker |-> None, aivis_default_speaker |-> None,
     macos_default_voice |-> None]

\* a field of a JSON object; a missing key and null both give None
ObjField(f, k) == IF k \in DOMAIN f THEN f[k] ELSE None

\* variant: the fields are read under camelCase names
AppConfig_from_str_camel(content) ==
    IF content.t = "object"
    THEN Some([voicevox_default_speaker |-> ObjField(content.v, "voicevoxDefaultSpeaker"),
               aivis_default_speaker |-> ObjField(content.v, "aivisDefaultSpeaker"),
               macos_default_voice |-> ObjField(content.v, "nativeDefaultVoice")])
    ELSE None

\* serde_json::from_str::<AppConfig>: Err is None here
AppConfig_from_str(content) ==
    IF content.t = "object"
    THEN Some([voicevox_default_speaker |-> ObjField(content.v, "voicevox_default_speaker"),
               aivis_default_speaker |-> ObjField(content.v, "aivis_default_speaker"),
               macos_default_voice |-> ObjField(content.v, "macos_default_voice")])
    ELSE None

\* fs is [has_home, home, exe]: the file under ~/speak-mcp and the one next
\* to the executable
get_config_path(f) == IF f.has_home THEN "home" ELSE "exe"

read_to_string(f, path) ==
    LET content == IF path = "home" THEN f.home ELSE f.exe
    IN IF content = Unreadable THEN None ELSE Some(content)

\* variant: only the primary path is tried
load_config_primary_only(f) ==
    LET path == get_config_path(f)
        first == read_to_string(f, path)
    IN IF first # None /\ AppConfig_from_str(first[1]) # None
       THEN AppConfig_from_str(first[1])[1]
       ELSE AppConfig_default

load_config(f) ==
    LET path == get_config_path(f)
        first == read_to_string(f, path)
        second == read_to_string(f, "exe")
    IN IF first # None /\ AppConfig_from_str(first[1]) # None
       THEN AppConfig_from_str(first[1])[1]
       ELSE IF path # "exe" /\ second # None /\ AppConfig_from_str(second[1]) # None
            THEN AppConfig_from_str(second[1])[1]
            ELSE AppConfig_default

\* ------------------------------------------------------------------------
\* Catalogs
\* ------------------------------------------------------------------------
StyleNames == {"Normal"}
SpeakerNames == {"Zundamon"}

StyleInfos == [name : StyleNames, id : SpeakerIds]

SeqsUpTo(S, n) == UNION { [1..k -> S] : k \in 0..n }

SpeakerInfos == [name : SpeakerNames, styles : SeqsUpTo(StyleInfos, MaxStyles)]

Catalogs == SeqsUpTo(SpeakerInfos, MaxEntries)

\* the catalogs engines answer with in the server runs
ServedCatalogs ==
    { << [name |-> "Zundamon", styles |-> << [name |-> "Normal", id |-> MaxSpeakerId] >>] >> }

\* ------------------------------------------------------------------------
\* HTTP exchanges.  A finished exchange is a transport error or a response
\* with a status and a body.
\* ------------------------------------------------------------------------
TransportError == [t |-> "transport_error"]
Response(status, body) == [t |-> "response", status |-> status, body |-> body]
Statuses == {200, 500}

ErrorDetail == JObject([k \in {"detail"} |-> "error"])
JCatalog(c) == [t |-> "array", catalog |-> c]

SpeakersBodies == {NotJson, ErrorDetail} \cup {JCatalog(c) : c \in ServedCatalogs}
SpeakersExchanges == {TransportError} \cup
                     {Response(s, b) : s \in Statuses, b \in SpeakersBodies}

\* Response::json::<Vec<SpeakerInfo>>().ok()
Speakers_from_json(body) ==
    IF body.t = "array" /\ "catalog" \in DOMAIN body THEN Some(body.catalog) ELSE None

fetch_speakers(exchange) ==
    IF exchange = TransportError THEN None ELSE Speakers_from_json(exchange.body)

\* ------------------------------------------------------------------------
\* Schema builder
\* ------------------------------------------------------------------------
format_title(speaker_name, style_name) == speaker_name \o " (" \o style_name \o ")"

\* variant: one choice per speaker, made of its first style only
RECURSIVE styles_one_of_first_only(_, _)
styles_one_of_first_only(speaker_name, styles) ==
    IF styles = <<>> THEN <<>>
    ELSE << [const |-> Head(styles).id,
             title |-> format_title(speaker_name, Head(styles).name)] >>

RECURSIVE styles_one_of(_, _)
styles_one_of(speaker_name, styles) ==
    IF styles = <<>> THEN <<>>
    ELSE << [const |-> Head(styles).id,
             title |-> format_title(speaker_name, Head(styles).name)] >>
         \o styles_one_of(speaker_name, Tail(styles))

RECURSIVE speakers_one_of(_)
speakers_one_of(speakers) ==
    IF speakers = <<>> THEN <<>>
    ELSE styles_one_of(Head(speakers).name, Head(speakers).styles)
         \o speakers_one_of(Tail(speakers))

schema_default_val(default_id) == Option_unwrap_or(default_id, FallbackSpeaker)

\* variant: a default that is not among the enumerated choices is replaced
\* by the first choice
build_speaker_choice_schema_default_in_list(speakers, default_id) ==
    LET default_val == schema_default_val(default_id)
        one_of == IF speakers # None THEN speakers_one_of(speakers[1]) ELSE <<>>
        listed == \E i \in 1..Len(one_of) : one_of[i].const = default_val
    IN IF speakers # None
       THEN [type |-> "object",
             text |-> [type |-> "string"],
             speaker |-> [oneOf |-> one_of,
                          default |-> IF listed \/ one_of = <<>> THEN default_val
                                      ELSE one_of[1].const],
             speed |-> [type |-> "number", default |-> DefaultSpeedScale],
             required |-> <<"text">>]
       ELSE [type |-> "object",
             text |-> [type |-> "string"],
             speaker |-> [type |-> "integer", default |-> default_val],
             speed |-> [type |-> "number", default |-> DefaultSpeedScale],
             required |-> <<"text">>]

build_speaker_choice_schema(speakers, default_id) ==
    LET default_val == schema_default_val(default_id)
    IN IF speakers # None
       THEN [type |-> "object",
             text |-> [type |-> "string"],
             speaker |-> [oneOf |-> speakers_one_of(speakers[1]), default |-> default_val],
             speed |-> [type |-> "number", default |-> DefaultSpeedScale],
             required |-> <<"text">>]
       ELSE [type |-> "object",
             text |-> [type |-> "string"],
             speaker |-> [type |-> "integer", default |-> default_val],
             speed |-> [type |-> "number", default |-> DefaultSpeedScale],
             required |-> <<"text">>]

\* ------------------------------------------------------------------------
\* State
\* ------------------------------------------------------------------------
VARIABLES
    fs,                 \* the two config files and whether a home directory exists
    platform,           \* target_os of the build
    main_pc,            \* position of main
    speakers_ex,        \* per port: the answer to the startup GET /speakers, once it is there
    config,             \* main's `config`
    voicevox_speakers,  \* main's `voicevox_speakers`
    tools,              \* registered tools: name -> schema and captured default
    calls,              \* running tool calls: the locals of call_voicevox_compatible
    b_args,             \* pure schema check: arguments of build_speaker_choice_schema
    b_schema,           \* pure schema check: its result
    tmpfiles            \* the temporary files that exist on disk

vars == <<fs, platform, main_pc, speakers_ex, config, voicevox_speakers, tools, calls,
          b_args, b_schema, tmpfiles>>

Platforms == {"macos", "windows", "other"}

FileSystems ==
    { [has_home |-> TRUE, home |-> h, exe |-> e] : h \in HomeFiles, e \in ExeFiles }
    \cup { [has_home |-> FALSE, home |-> Unreadable, exe |-> e] : e \in ExeFiles }

NoTools == [n \in {} |-> None]

IdleCall ==
    [pc |-> "idle", req |-> "none", port |-> 0,
     speaker_arg |-> None, speed_arg |-> None, default_speaker |-> None,
     speaker_id |-> 0, speed_scale |-> 0,
     query_req |-> None, query_ex |-> None,
     synth_req |-> None, synth_ex |-> None,
     wav_data |-> None, tmp |-> None,
     play |-> "none", voice_arg |-> None, say |-> None, result |-> "none"]

\* ------------------------------------------------------------------------
\* main: startup
\* ------------------------------------------------------------------------
Init ==
    /\ fs \in FileSystems
    /\ platform \in Platforms
    /\ main_pc = "load_config"
    /\ speakers_ex = [p \in Ports |-> None]
    /\ config = AppConfig_default
    /\ voicevox_speakers = None
    /\ tools = NoTools
    /\ calls = [c \in {1} |-> IdleCall]
    /\ b_args = None
    /\ b_schema = None
    /\ tmpfiles = {}

\* main.rs 226, then the GET of line 231 is in flight
MainLoadConfig ==
    /\ main_pc = "load_config"
    /\ config' = load_config(fs)
    /\ main_pc' = "fetch_voicevox"
    /\ UNCHANGED <<fs, platform, speakers_ex, voicevox_speakers, tools, calls, b_args, b_schema, tmpfiles>>

\* the engine answers the GET main is waiting on.  Nothing makes it answer:
\* it may accept the connection and stay silent, and the client built in
\* fetch_speakers sets no timeout
FetchPort == IF main_pc = "fetch_voicevox" THEN VOICEVOX_PORT ELSE AIVIS_PORT

EngineAnswersSpeakers ==
    /\ main_pc \in {"fetch_voicevox", "fetch_aivis"}
    /\ speakers_ex[FetchPort] = None
    /\ \E ex \in SpeakersExchanges :
          speakers_ex' = [speakers_ex EXCEPT ![FetchPort] = Some(ex)]
    /\ UNCHANGED <<fs, platform, main_pc, config, voicevox_speakers, tools, calls,
                   b_args, b_schema, tmpfiles>>

\* main.rs 231 returns, then the GET of line 232 is in flight
MainFetchVoicevoxReturn ==
    /\ main_pc = "fetch_voicevox"
    /\ speakers_ex[VOICEVOX_PORT] # None
    /\ voicevox_speakers' = fetch_speakers(speakers_ex[VOICEVOX_PORT][1])
    /\ main_pc' = "fetch_aivis"
    /\ UNCHANGED <<fs, platform, speakers_ex, config, tools, calls, b_args, b_schema, tmpfiles>>

register_tool(reg, name, schema, port, default) ==
    [n \in DOMAIN reg \cup {name} |->
        IF n = name
        THEN [input_schema |-> schema, port |-> port, default_speaker |-> default]
        ELSE reg[n]]

NativeSchema == [type |-> "object", text |-> [type |-> "string"],
                 voice |-> [type |-> "string"], speed |-> [type |-> "integer"],
                 required |-> <<"text">>]

\* main.rs 235-343: everything main registers, given the two fetch results
main_register(cfg, vv_speakers, aivis_speakers, os) ==
    LET vv_default == cfg.voicevox_default_speaker
        aivis_default == cfg.aivis_default_speaker
        t1 == register_tool(NoTools, "speak_voicevox",
                            build_speaker_choice_schema(vv_speakers, vv_default),
                            VOICEVOX_PORT, vv_default)
        t2 == register_tool(t1, "speak_aivis",
                            build_speaker_choice_schema(aivis_speakers, aivis_default),
                            AIVIS_PORT, aivis_default)
    IN IF os = "macos" THEN register_tool(t2, "speak", NativeSchema, 0, None) ELSE t2

\* main.rs 232 returns; 235-345 run without suspension up to server.listen()
MainFetchAivisReturn ==
    /\ main_pc = "fetch_aivis"
    /\ speakers_ex[AIVIS_PORT] # None
    /\ tools' = main_register(config, voicevox_speakers,
                              fetch_speakers(speakers_ex[AIVIS_PORT][1]), platform)
    /\ voicevox_speakers' = None                   \* moved into the schema builder
    /\ speakers_ex' = [p \in Ports |-> None]       \* both responses are dropped
    /\ main_pc' = "listen"
    /\ UNCHANGED <<fs, platform, config, calls, b_args, b_schema, tmpfiles>>

\* ------------------------------------------------------------------------
\* The config file changes under the server
\* ------------------------------------------------------------------------
\* speak-config: on_save_config writes the whole AppConfig with serde's field names
save_config_to_file(f, vv_id, aivis_id) ==
    LET content == ConfigObject("voicevox_default_speaker", vv_id,
                                "aivis_default_speaker", aivis_id)
    IN IF get_config_path(f) = "home" THEN [f EXCEPT !.home = content]
                                      ELSE [f EXCEPT !.exe = content]

ConfigEditorSave ==
    /\ \E p \in DefaultPairs : fs' = save_config_to_file(fs, p[1], p[2])
    /\ fs' # fs
    /\ UNCHANGED <<platform, main_pc, speakers_ex, config, voicevox_speakers, tools, calls,
                   b_args, b_schema, tmpfiles>>

\* any other writer of the file in the home directory (a hand edit, a partial write)
ExternalEdit ==
    /\ fs.has_home
    /\ \E content \in HomeFiles \ SnakeObjects : fs' = [fs EXCEPT !.home = content]
    /\ fs' # fs
    /\ UNCHANGED <<platform, main_pc, speakers_ex, config, voicevox_speakers, tools, calls,
                   b_args, b_schema, tmpfiles>>

\* ------------------------------------------------------------------------
\* Tool calls: call_voicevox_compatible
\* ------------------------------------------------------------------------
Texts == {"hello"}

\* the JSON value under "text": a string, or a value of another type
JText(s) == [t |-> "string", v |-> s]
TextValues == {JText(s) : s \in Texts} \cup {JNumber}

\* req.arguments: absent, or a map; a map without "text", or with a "text"
\* that is no string, does not deserialize
ArgMaps == [text : {None} \cup {Some(t) : t \in TextValues},
            speaker : OptSpeakerIds, speed : OptSpeeds]
Requests == {[arguments |-> None]} \cup {[arguments |-> Some(a)] : a \in ArgMaps}

\* what the caller sent: no arguments, arguments without text, arguments whose
\* text is no string, or arguments with the required text
RequestShape(req) ==
    IF req.arguments = None THEN "no_arguments"
    ELSE IF req.arguments[1].text = None THEN "no_text"
    ELSE IF req.arguments[1].text[1].t # "string" THEN "malformed_text"
    ELSE "complete"

\* variant: a text that is missing or no string is read as the empty string
VoiceEngineArgs_from_value_lenient(args_val) ==
    Some([text |-> IF args_val.text = None THEN ""
                   ELSE IF args_val.text[1].t # "string" THEN ""
                   ELSE args_val.text[1].v,
          speaker |-> args_val.speaker, speed |-> args_val.speed])

\* serde_json::from_value::<VoiceEngineArgs>: Err is None here
VoiceEngineArgs_from_value(args_val) ==
    IF args_val.text = None THEN None
    ELSE IF args_val.text[1].t # "string" THEN None
    ELSE Some([text |-> args_val.text[1].v, speaker |-> args_val.speaker,
               speed |-> args_val.speed])

AudioQueryDoc ==
    JObject([k \in {"speedScale", "pitchScale"} |-> IF k = "speedScale" THEN 10 ELSE 0])

QueryBodies == {NotJson, JNull, JArray, JString, JNumber, ErrorDetail, AudioQueryDoc}
QueryExchanges == {TransportError} \cup
                  {Response(s, b) : s \in Statuses, b \in QueryBodies}

WavBodies == {"wav", "error page"}
SynthExchanges == {TransportError} \cup
                  {Response(s, b) : s \in Statuses, b \in WavBodies}

\* Response::json::<serde_json::Value>: Err is None here
Value_from_body(body) == IF body = NotJson THEN None ELSE Some(body)

\* the locals of a finished stage are not kept, nothing reads them again;
\* what stays of a call is what it received and what it did
Forget(call) ==
    [call EXCEPT !.port = 0, !.speaker_arg = None, !.speed_arg = None,
                 !.default_speaker = None, !.speaker_id = 0, !.speed_scale = 0,
                 !.query_req = None, !.synth_req = None]

\* the call returns Err (the `?` of lines 182-208) or Ok (210)
Returned(call, res) ==
    [Forget(call) EXCEPT !.pc = "returned", !.tmp = None, !.result = res]

\* variant: the configured default takes precedence over the argument
resolve_speaker_id_config_first(speaker_arg, default_speaker) ==
    Option_unwrap_or(Option_or(default_speaker, speaker_arg), FallbackSpeaker)

\* line 186
resolve_speaker_id(speaker_arg, default_speaker) ==
    Option_unwrap_or(Option_or(speaker_arg, default_speaker), FallbackSpeaker)

\* line 188
resolve_speed_scale(speed_arg) == Option_unwrap_or(speed_arg, DefaultSpeedScale)

\* variant: both POSTs are started together (a join of the two requests)
call_start_speculative(port, req, default_speaker) ==
    IF req.arguments = None THEN Returned(IdleCall, "err")
    ELSE IF VoiceEngineArgs_from_value(req.arguments[1]) = None
         THEN Returned(IdleCall, "err")
         ELSE LET args == VoiceEngineArgs_from_value(req.arguments[1])[1]
                  speaker_id == resolve_speaker_id(args.speaker, default_speaker)
              IN [IdleCall EXCEPT
                    !.pc = "audio_query",
                    !.port = port,
                    !.speaker_arg = args.speaker,
                    !.speed_arg = args.speed,
                    !.default_speaker = default_speaker,
                    !.speaker_id = speaker_id,
                    !.speed_scale = resolve_speed_scale(args.speed),
                    !.query_req = Some([port |-> port, text |-> args.text,
                                        speaker |-> ToString(speaker_id)]),
                    !.synth_req = Some([port |-> port, speaker |-> ToString(speaker_id),
                                        body |-> JNull])]

\* lines 180-196, up to the await of the audio_query POST
call_start(port, req, default_speaker) ==
    IF req.arguments = None THEN Returned(IdleCall, "err")
    ELSE IF VoiceEngineArgs_from_value(req.arguments[1]) = None
         THEN Returned(IdleCall, "err")
         ELSE LET args == VoiceEngineArgs_from_value(req.arguments[1])[1]
                  speaker_id == resolve_speaker_id(args.speaker, default_speaker)
              IN [IdleCall EXCEPT
                    !.pc = "audio_query",
                    !.port = port,
                    !.speaker_arg = args.speaker,
                    !.speed_arg = args.speed,
                    !.default_speaker = default_speaker,
                    !.speaker_id = speaker_id,
                    !.speed_scale = resolve_speed_scale(args.speed),
                    !.query_req = Some([port |-> port, text |-> args.text,
                                        speaker |-> ToString(speaker_id)])]

\* query_json["speedScale"] = ...: IndexMut<&str> of serde_json::Value makes
\* an object of null, inserts into an object and panics on anything else
CanIndexMut(json) == json.t \in {"null", "object"}

\* variant: the body is a new document that holds nothing but speedScale
set_speedScale_fresh(json, speed_scale) ==
    JObject([k \in {"speedScale"} |-> speed_scale])

set_speedScale(json, speed_scale) ==
    IF json.t = "null"
    THEN JObject([k \in {"speedScale"} |-> speed_scale])
    ELSE JObject([k \in DOMAIN json.v \cup {"speedScale"} |->
                     IF k = "speedScale" THEN speed_scale ELSE json.v[k]])

\* variant: a failed audio_query is swallowed and synthesis is posted anyway
on_audio_query_swallowing_error(call, ex) ==
    LET got == [call EXCEPT !.query_ex = Some(ex)]
        query_json == IF ex = TransportError \/ Value_from_body(ex.body) = None
                      THEN JNull ELSE ex.body
    IN IF ~CanIndexMut(query_json)
       THEN [Forget(got) EXCEPT !.pc = "panicked", !.result = "panic"]
       ELSE [got EXCEPT
               !.pc = "synthesis",
               !.synth_req =
                   Some([port |-> call.port,
                         speaker |-> ToString(call.speaker_id),
                         body |-> set_speedScale(query_json, call.speed_scale)])]

\* lines 196-205, from the audio_query response to the await of the synthesis POST
on_audio_query(call, ex) ==
    LET got == [call EXCEPT !.query_ex = Some(ex)]
    IN IF ex = TransportError THEN Returned(got, "err")
       ELSE IF Value_from_body(ex.body) = None THEN Returned(got, "err")
       ELSE LET query_json == Value_from_body(ex.body)[1]
            IN IF ~CanIndexMut(query_json)
               THEN [Forget(got) EXCEPT !.pc = "panicked", !.result = "panic"]
               ELSE [got EXCEPT
                       !.pc = "synthesis",
                       !.synth_req =
                           Some([port |-> call.port,
                                 speaker |-> ToString(call.speaker_id),
                                 body |-> set_speedScale(query_json, call.speed_scale)])]

\* ------------------------------------------------------------------------
\* play_wav and its temporary file
\* ------------------------------------------------------------------------
MaxTempFiles == 2
TempNames == 1..MaxTempFiles

\* NamedTempFile::new() creates a file under a name no existing file has
NamedTempFile_new(files) == CHOOSE n \in TempNames : n \notin files

\* lines 205-208 and 142: from the synthesis response into play_wav, up to
\* the creation of the temporary file; tf is None when the creation fails
on_synthesis(call, ex, tf) ==
    LET got == [call EXCEPT !.synth_ex = Some(ex)]
    IN IF ex = TransportError THEN Returned(got, "err")
       ELSE IF tf = None
            THEN Returned([got EXCEPT !.wav_data = Some(ex.body),
                                      !.play = "tempfile_error"], "err")
            ELSE [Forget(got) EXCEPT !.pc = "play_wav", !.wav_data = Some(ex.body),
                                     !.tmp = tf, !.play = "called"]

\* the files on disk once on_synthesis has run
tmp_after_on_synthesis(files, call) ==
    IF call.tmp # None THEN files \cup {call.tmp[1]} ELSE files

\* what can happen inside play_wav, after the file was created, on each target_os
PlayOutcomes(os) ==
    IF os \in {"macos", "windows"}
    THEN {"write_error", "path_error", "launch_error", "nonzero_exit", "success"}
    ELSE {"write_error", "path_error", "success"}

\* variant: the exit status of the player is not looked at
play_wav_ignoring_status(os, outcome) ==
    IF outcome \in {"write_error", "path_error"} THEN "err"
    ELSE IF os \in {"macos", "windows"}
         THEN IF outcome = "launch_error" THEN "err" ELSE "ok"
         ELSE "ok"

\* lines 143-172: write_all()?, to_str() of the path, then afplay or powershell where there is one
play_wav(os, outcome) ==
    IF outcome \in {"write_error", "path_error"} THEN "err"
    ELSE IF os \in {"macos", "windows"}
         THEN IF outcome = "launch_error" THEN "err"
              ELSE IF outcome = "nonzero_exit" THEN "err"
              ELSE "ok"
         ELSE "ok"

\* lines 208-216
on_play_wav(call, os, outcome) ==
    Returned([call EXCEPT !.play = outcome], play_wav(os, outcome))

\* variant: the file is removed only after a successful playback
tmp_after_play_wav_on_success(files, call, outcome) ==
    IF outcome = "success" THEN files \ {call.tmp[1]} ELSE files

\* temp_file goes out of scope on every way out of play_wav, which removes the file
tmp_after_play_wav(files, call, outcome) == files \ {call.tmp[1]}

\* ------------------------------------------------------------------------
\* The native tool `speak` (target_os = "macos")
\* ------------------------------------------------------------------------
ArgVoices == {"Kyoko"}
Rates == {200}

SpeakArgMaps == [text : {None} \cup {Some(t) : t \in TextValues},
                 voice : {None} \cup {Some(v) : v \in ArgVoices},
                 speed : {None} \cup {Some(r) : r \in Rates}]
SpeakRequests == {[arguments |-> None]} \cup {[arguments |-> Some(a)] : a \in SpeakArgMaps}

\* serde_json::from_value::<SpeakArgs>: Err is None here
SpeakArgs_from_value(args_val) ==
    IF args_val.text = None THEN None
    ELSE IF args_val.text[1].t # "string" THEN None
    ELSE Some([text |-> args_val.text[1].v, voice |-> args_val.voice,
               speed |-> args_val.speed])

SayOutcomes == {"launch_error", "nonzero_exit", "success"}

\* lines 319-325: the argument vector of `say`
say_argv(args, current_config) ==
    LET v == Option_or(args.voice, current_config.macos_default_voice)
    IN <<args.text>>
       \o (IF v # None THEN <<"-v", v[1]>> ELSE <<>>)
       \o (IF args.speed # None THEN <<"-r", ToString(args.speed[1])>> ELSE <<>>)

\* lines 301-338: the handler of `speak`, given what load_config returns
speak_handler(req, current_config, outcome) ==
    LET shaped == [IdleCall EXCEPT !.req = RequestShape(req)]
    IN IF req.arguments = None THEN Returned(shaped, "err")
       ELSE IF SpeakArgs_from_value(req.arguments[1]) = None THEN Returned(shaped, "err")
       ELSE LET args == SpeakArgs_from_value(req.arguments[1])[1]
                ran == [shaped EXCEPT
                          !.voice_arg = args.voice,
                          !.say = Some([argv |-> say_argv(args, current_config),
                                        status |-> outcome])]
            IN Returned(ran, IF outcome = "success" THEN "ok" ELSE "err")

HttpTools == { n \in DOMAIN tools : tools[n].port \in Ports }

\* variant: the handler uses the config main loaded at startup
CallSpeak_startup_config(c) ==
    /\ main_pc = "listen"
    /\ calls[c].pc = "idle"
    /\ "speak" \in DOMAIN tools
    /\ \E req \in SpeakRequests, outcome \in SayOutcomes :
          calls' = [calls EXCEPT ![c] = speak_handler(req, config, outcome)]
    /\ UNCHANGED <<fs, platform, main_pc, speakers_ex, config, voicevox_speakers, tools,
                   b_args, b_schema, tmpfiles>>

\* a call of `speak`: the handler has no await, it runs to its end in one
\* step and reads the config file on the way (line 314)
CallSpeak(c) ==
    /\ main_pc = "listen"
    /\ calls[c].pc = "idle"
    /\ "speak" \in DOMAIN tools
    /\ \E req \in SpeakRequests, outcome \in SayOutcomes :
          calls' = [calls EXCEPT ![c] = speak_handler(req, load_config(fs), outcome)]
    /\ UNCHANGED <<fs, platform, main_pc, speakers_ex, config, voicevox_speakers, tools,
                   b_args, b_schema, tmpfiles>>


\* the RPC boundary routes a call to the closure registered for the tool
CallTool(c) ==
    /\ main_pc = "listen"
    /\ calls[c].pc = "idle"
    /\ \E n \in HttpTools, req \in Requests :
          calls' = [calls EXCEPT ![c] =
                       [call_start(tools[n].port, req, tools[n].default_speaker)
                           EXCEPT !.req = RequestShape(req)]]
    /\ UNCHANGED <<fs, platform, main_pc, speakers_ex, config, voicevox_speakers, tools,
                   b_args, b_schema, tmpfiles>>

\* a panic of the handler either unwinds through server.listen() into main
\* or is confined to the task the RPC library runs the handler on
AudioQueryReturn(c) ==
    /\ main_pc = "listen"
    /\ calls[c].pc = "audio_query"
    /\ \E ex \in QueryExchanges :
          calls' = [calls EXCEPT ![c] = on_audio_query(calls[c], ex)]
    /\ IF calls'[c].pc = "panicked"
       THEN main_pc' \in {"listen", "panicked"}
       ELSE main_pc' = main_pc
    /\ UNCHANGED <<fs, platform, speakers_ex, config, voicevox_speakers, tools,
                   b_args, b_schema, tmpfiles>>

\* variant: the audio of the last synthesis response sits in one buffer that
\* every call waiting in play_wav reads
SynthesisReturn_shared_buffer(c) ==
    /\ main_pc = "listen"
    /\ calls[c].pc = "synthesis"
    /\ TempNames \ tmpfiles # {}
    /\ \E ex \in SynthExchanges, tf \in {None, Some(NamedTempFile_new(tmpfiles))} :
          calls' = [d \in DOMAIN calls |->
                      IF d = c THEN on_synthesis(calls[c], ex, tf)
                      ELSE IF calls[d].pc = "play_wav" /\ ex # TransportError
                           THEN [calls[d] EXCEPT !.wav_data = Some(ex.body)]
                           ELSE calls[d]]
    /\ tmpfiles' = tmp_after_on_synthesis(tmpfiles, calls'[c])
    /\ UNCHANGED <<fs, platform, main_pc, speakers_ex, config, voicevox_speakers, tools,
                   b_args, b_schema>>

SynthesisReturn(c) ==
    /\ main_pc = "listen"
    /\ calls[c].pc = "synthesis"
    /\ TempNames \ tmpfiles # {}
    /\ \E ex \in SynthExchanges, tf \in {None, Some(NamedTempFile_new(tmpfiles))} :
          calls' = [calls EXCEPT ![c] = on_synthesis(calls[c], ex, tf)]
    /\ tmpfiles' = tmp_after_on_synthesis(tmpfiles, calls'[c])
    /\ UNCHANGED <<fs, platform, main_pc, speakers_ex, config, voicevox_speakers, tools,
                   b_args, b_schema>>

PlayWavReturn(c) ==
    /\ main_pc = "listen"
    /\ calls[c].pc = "play_wav"
    /\ \E outcome \in PlayOutcomes(platform) :
          /\ calls' = [calls EXCEPT ![c] = on_play_wav(calls[c], platform, outcome)]
          /\ tmpfiles' = tmp_after_play_wav(tmpfiles, calls[c], outcome)
    /\ UNCHANGED <<fs, platform, main_pc, speakers_ex, config, voicevox_speakers, tools,
                   b_args, b_schema>>

\* variant: after each call the tools are registered again from the config
\* file as it is now, without a catalog
CallDiscard_reregistering(c) ==
    /\ main_pc = "listen"
    /\ calls[c].pc \in {"returned", "panicked"}
    /\ calls' = [calls EXCEPT ![c] = IdleCall]
    /\ tools' = main_register(load_config(fs), None, None, platform)
    /\ UNCHANGED <<fs, platform, main_pc, speakers_ex, config, voicevox_speakers,
                   b_args, b_schema, tmpfiles>>

\* the response has gone out; the request and its locals are dropped
CallDiscard(c) ==
    /\ main_pc = "listen"
    /\ calls[c].pc \in {"returned", "panicked"}
    /\ calls' = [calls EXCEPT ![c] = IdleCall]
    /\ UNCHANGED <<fs, platform, main_pc, speakers_ex, config, voicevox_speakers, tools,
                   b_args, b_schema, tmpfiles>>

\* ------------------------------------------------------------------------
\* Specifications
\* ------------------------------------------------------------------------
Next ==
    \/ MainLoadConfig
    \/ EngineAnswersSpeakers
    \/ MainFetchVoicevoxReturn
    \/ MainFetchAivisReturn
    \/ ConfigEditorSave
    \/ ExternalEdit
    \/ \E c \in DOMAIN calls : CallTool(c)
    \/ \E c \in DOMAIN calls : CallSpeak(c)
    \/ \E c \in DOMAIN calls : AudioQueryReturn(c)
    \/ \E c \in DOMAIN calls : SynthesisReturn(c)
    \/ \E c \in DOMAIN calls : PlayWavReturn(c)
    \/ \E c \in DOMAIN calls : CallDiscard(c)

Spec == Init /\ [][Next]_vars

\* startup alone
\* Two calls in flight on a server that is listening: the state main reaches
\* on a build with a player, with both catalogs unavailable at startup
ConcFileSystems ==
    { [has_home |-> TRUE,
       home |-> ConfigObject("voicevox_default_speaker", Some(1),
                             "aivis_default_speaker", Some(MaxSpeakerId)),
       exe |-> Unreadable] }

ConcInit ==
    /\ fs \in ConcFileSystems
    /\ platform \in {"windows", "other"}
    /\ main_pc = "listen"
    /\ speakers_ex = [p \in Ports |-> None]
    /\ config = load_config(fs)
    /\ voicevox_speakers = None
    /\ tools = main_register(config, None, None, platform)
    /\ calls = [c \in {1, 2} |-> IdleCall]
    /\ b_args = None
    /\ b_schema = None
    /\ tmpfiles = {}

ConcNext ==
    \/ \E c \in DOMAIN calls : CallTool(c)
    \/ \E c \in DOMAIN calls : AudioQueryReturn(c)
    \/ \E c \in DOMAIN calls : SynthesisReturn(c)
    \/ \E c \in DOMAIN calls : PlayWavReturn(c)
    \/ \E c \in DOMAIN calls : CallDiscard(c)

ConcSpec == ConcInit /\ [][ConcNext]_vars

StartupNext ==
    \/ MainLoadConfig
    \/ EngineAnswersSpeakers
    \/ MainFetchVoicevoxReturn
    \/ MainFetchAivisReturn

\* the runtime keeps polling main: a step of main that can be taken is taken.
\* An engine owes the server no answer, so EngineAnswersSpeakers is not fair.
StartupFairSpec ==
    /\ Init /\ [][StartupNext]_vars
    /\ WF_vars(MainLoadConfig)
    /\ WF_vars(MainFetchVoicevoxReturn)
    /\ WF_vars(MainFetchAivisReturn)

\* build_speaker_choice_schema as a pure function of its two arguments
SchemaInit ==
    /\ fs = [has_home |-> FALSE, home |-> Unreadable, exe |-> Unreadable]
    /\ platform = "other"
    /\ main_pc = "schema"
    /\ speakers_ex = [p \in Ports |-> None]
    /\ config = AppConfig_default
    /\ voicevox_speakers = None
    /\ tools = NoTools
    /\ calls = [c \in {1} |-> IdleCall]
    /\ b_args \in { Some([speakers |-> sp, default_id |-> d]) :
                      sp \in {None} \cup {Some(c) : c \in Catalogs}, d \in OptSpeakerIds }
    /\ b_schema = None
    /\ tmpfiles = {}

BuildSchema ==
    /\ main_pc = "schema"
    /\ b_schema = None
    /\ b_schema' = Some(build_speaker_choice_schema(b_args[1].speakers, b_args[1].default_id))
    /\ UNCHANGED <<fs, platform, main_pc, speakers_ex, config, voicevox_speakers, tools, calls,
                   b_args, tmpfiles>>

SchemaNext == BuildSchema

SchemaSpec == SchemaInit /\ [][SchemaNext]_vars

\* ------------------------------------------------------------------------
\* Properties
\* ------------------------------------------------------------------------
IsResponse(opt_ex) == opt_ex # None /\ opt_ex[1].t = "response"

SynthesisIssued(call) == call.synth_req # None \/ call.synth_ex # None

\* C1: within one dispatch, synthesis is issued only after the audio_query
\* of that dispatch has completed and its response has been received
C1_QueryCompletesBeforeSynthesis ==
    \A c \in DOMAIN calls :
        (SynthesisIssued(calls[c]) \/ calls[c].pc \in {"synthesis", "play_wav"})
            => IsResponse(calls[c].query_ex)

C1_Witness ==
    \E c \in DOMAIN calls :
        /\ calls[c].pc = "synthesis"
        /\ calls[c].synth_req # None
        /\ IsResponse(calls[c].query_ex)

\* the default main read from the config file for the engine on a port
ConfiguredDefault(port) ==
    IF port = VOICEVOX_PORT THEN config.voicevox_default_speaker
                            ELSE config.aivis_default_speaker

ExpectedSpeaker(call) ==
    IF call.speaker_arg # None THEN call.speaker_arg[1]
    ELSE IF ConfiguredDefault(call.port) # None THEN ConfiguredDefault(call.port)[1]
    ELSE 1

\* C2: the speaker id sent to the engine is the argument if present, else
\* the configured default of that engine if present, else 1
C2_SpeakerPrecedence ==
    \A c \in DOMAIN calls :
        /\ calls[c].query_req # None
              => calls[c].query_req[1].speaker = ToString(ExpectedSpeaker(calls[c]))
        /\ calls[c].synth_req # None
              => calls[c].synth_req[1].speaker = ToString(ExpectedSpeaker(calls[c]))

C2_Witness ==
    \E c \in DOMAIN calls :
        /\ calls[c].pc = "audio_query"
        /\ calls[c].speaker_arg = None
        /\ ConfiguredDefault(calls[c].port) = Some(MaxSpeakerId)
        /\ calls[c].query_req[1].speaker = ToString(MaxSpeakerId)

\* C3: a transport error on audio_query makes the dispatch return a failure,
\* and neither synthesis nor playback is invoked for it
C3_QueryTransportErrorStops ==
    \A c \in DOMAIN calls :
        calls[c].query_ex = Some(TransportError)
            => /\ calls[c].pc = "returned"
               /\ calls[c].result = "err"
               /\ ~SynthesisIssued(calls[c])
               /\ calls[c].play = "none"

C3_Witness ==
    \E c \in DOMAIN calls :
        /\ calls[c].query_ex = Some(TransportError)
        /\ calls[c].pc = "returned"

NonSuccess(opt_ex) == IsResponse(opt_ex) /\ opt_ex[1].status \notin 200..299

\* C4: a non-2xx answer to audio_query or synthesis, whatever its body, makes
\* the dispatch fail without playback; a non-2xx audio_query answer also
\* prevents the synthesis request
C4_NonSuccessStatusStops ==
    \A c \in DOMAIN calls :
        /\ NonSuccess(calls[c].query_ex)
              => /\ ~SynthesisIssued(calls[c])
                 /\ calls[c].play = "none"
                 /\ calls[c].result # "ok"
        /\ NonSuccess(calls[c].synth_ex)
              => /\ calls[c].play = "none"
                 /\ calls[c].result # "ok"

\* the default a fresh read of the config file gives for the engine on a port
FileDefault(f, port) ==
    IF port = VOICEVOX_PORT THEN load_config(f).voicevox_default_speaker
                            ELSE load_config(f).aivis_default_speaker

\* C5: a dispatch that omits the speaker uses the default the config file
\* holds at the time of that dispatch
C5_DefaultReadAtDispatch ==
    [][\A c \in DOMAIN calls :
          (/\ calls[c].pc = "idle"
           /\ calls'[c].pc = "audio_query"
           /\ calls'[c].speaker_arg = None)
             => calls'[c].query_req[1].speaker =
                   ToString(IF FileDefault(fs, calls'[c].port) # None
                            THEN FileDefault(fs, calls'[c].port)[1]
                            ELSE 1)]_vars

\* C6: no outcome of a tool call panics or terminates the service
C6_NoCallPanics ==
    /\ main_pc # "panicked"
    /\ \A c \in DOMAIN calls : calls[c].pc # "panicked" /\ calls[c].result # "panic"

\* C7: an audio_query body that is not JSON, or is JSON but not an object,
\* makes the dispatch return a failure; synthesis and playback are not invoked
C7_MalformedDocumentFails ==
    \A c \in DOMAIN calls :
        (/\ IsResponse(calls[c].query_ex)
         /\ calls[c].query_ex[1].body.t \in {"invalid", "array", "string", "number"})
            => /\ calls[c].pc = "returned"
               /\ calls[c].result = "err"
               /\ ~SynthesisIssued(calls[c])
               /\ calls[c].play = "none"

FetchSucceeded(opt_ex) ==
    /\ IsResponse(opt_ex)
    /\ opt_ex[1].status \in 200..299
    /\ opt_ex[1].body.t = "array"

Permissive(schema) ==
    /\ "oneOf" \notin DOMAIN schema.speaker
    /\ "type" \in DOMAIN schema.speaker
    /\ schema.speaker.type = "integer"

\* C8: whatever the two catalog fetches gave, startup registers both tools,
\* and the schema of an engine whose fetch did not succeed is the permissive
\* integer form
C8_FailedFetchGivesPermissiveSchema ==
    [][(main_pc = "fetch_aivis" /\ main_pc' = "listen")
          => /\ {"speak_voicevox", "speak_aivis"} \subseteq DOMAIN tools'
             /\ ~FetchSucceeded(speakers_ex[VOICEVOX_PORT])
                   => Permissive(tools'["speak_voicevox"].input_schema)
             /\ ~FetchSucceeded(speakers_ex[AIVIS_PORT])
                   => Permissive(tools'["speak_aivis"].input_schema)]_vars

\* C9: startup eventually reaches the serving state whatever the engines do
C9_StartupReachesListen == <>(main_pc = "listen")

\* C10: the speaker default of the schema is the configured default when it
\* is set and 1 otherwise, whether or not it is among the choices
C10_SchemaDefault ==
    b_schema # None
        => b_schema[1].speaker.default =
              (IF b_args[1].default_id # None THEN b_args[1].default_id[1] ELSE 1)

C10_Witness ==
    /\ b_schema # None
    /\ b_args[1].speakers # None
    /\ b_args[1].default_id # None
    /\ Len(b_schema[1].speaker.oneOf) > 0
    /\ \A i \in 1..Len(b_schema[1].speaker.oneOf) :
          b_schema[1].speaker.oneOf[i].const # b_args[1].default_id[1]
    /\ b_schema[1].speaker.default = b_args[1].default_id[1]


RECURSIVE SumStyles(_)
SumStyles(catalog) ==
    IF catalog = <<>> THEN 0 ELSE Len(Head(catalog).styles) + SumStyles(Tail(catalog))

\* C11: an absent catalog gives no enumeration; a present catalog gives one
\* choice per (entry, style) pair, in catalog order, with value style.id, so
\* the number of choices is the sum of the style counts
C11_OneChoicePerStyle ==
    b_schema # None
        => IF b_args[1].speakers = None
           THEN "oneOf" \notin DOMAIN b_schema[1].speaker
           ELSE LET catalog == b_args[1].speakers[1]
                    one_of == b_schema[1].speaker.oneOf
                IN /\ Len(one_of) = SumStyles(catalog)
                   /\ \A i \in 1..Len(catalog) :
                         \A j \in 1..Len(catalog[i].styles) :
                            one_of[SumStyles(SubSeq(catalog, 1, i - 1)) + j].const
                               = catalog[i].styles[j].id

C11_Witness ==
    /\ b_schema # None
    /\ b_args[1].speakers # None
    /\ Len(b_args[1].speakers[1]) = 2
    /\ Len(b_args[1].speakers[1][1].styles) = 2
    /\ Len(b_schema[1].speaker.oneOf) = 3
    /\ b_schema[1].speaker.oneOf[1].const # b_schema[1].speaker.oneOf[2].const


\* C15: a call whose arguments are missing, or whose text is absent or not a
\* string, returns a failure, and no audio_query, synthesis or playback is
\* performed for it: it is never waiting on an engine or on play_wav, it has
\* received no response and holds no temporary file.
BadRequest(call) == call.req \in {"no_arguments", "no_text", "malformed_text"}

C15_BadArgumentsFailEarly ==
    \A c \in DOMAIN calls :
        BadRequest(calls[c]) =>
            /\ calls[c].pc = "returned"
            /\ calls[c].result = "err"
            /\ calls[c].query_req = None /\ calls[c].query_ex = None
            /\ calls[c].synth_req = None /\ calls[c].synth_ex = None
            /\ calls[c].play = "none" /\ calls[c].tmp = None

C15_Witness ==
    \E c \in DOMAIN calls :
        /\ calls[c].req = "malformed_text"
        /\ calls[c].pc = "returned"
        /\ calls[c].result = "err"


\* C17: in every dispatch the synthesis request carries the speaker id of the
\* audio_query request of that dispatch, and its body is the audio_query
\* response document with speedScale set to the request's speed if there is
\* one, else 1.0, and every other field as the engine returned it.
FieldsOf(json) == IF json.t = "object" THEN DOMAIN json.v ELSE {}

C17_SynthesisCarriesMutatedDocument ==
    \A c \in DOMAIN calls :
        calls[c].pc = "synthesis" =>
            LET q == calls[c].query_req[1]
                s == calls[c].synth_req[1]
                doc == calls[c].query_ex[1].body
                speed == IF calls[c].speed_arg # None THEN calls[c].speed_arg[1]
                         ELSE DefaultSpeedScale
            IN /\ s.speaker = q.speaker
               /\ s.port = q.port
               /\ s.body.t = "object"
               /\ DOMAIN s.body.v = FieldsOf(doc) \cup {"speedScale"}
               /\ s.body.v["speedScale"] = speed
               /\ \A k \in FieldsOf(doc) \ {"speedScale"} : s.body.v[k] = doc.v[k]

C17_Witness ==
    \E c \in DOMAIN calls :
        /\ calls[c].pc = "synthesis"
        /\ calls[c].speed_arg = Some(15)
        /\ calls[c].query_ex[1].body = AudioQueryDoc
        /\ calls[c].synth_req[1].body.v["speedScale"] = 15
        /\ calls[c].synth_req[1].body.v["pitchScale"] = 0


\* C13: when audio_query and synthesis both succeeded but the player could
\* not be launched or exited with a nonzero status, the dispatch returns a
\* failure, never a success.
PlaybackFailed(call) == call.play \in {"launch_error", "nonzero_exit"}

C13_PlaybackFailureIsFailure ==
    \A c \in DOMAIN calls :
        PlaybackFailed(calls[c]) =>
            /\ calls[c].pc = "returned"
            /\ calls[c].result = "err"

C13_Witness ==
    \E c \in DOMAIN calls :
        /\ calls[c].play = "nonzero_exit"
        /\ calls[c].query_ex = Some(Response(200, AudioQueryDoc))
        /\ calls[c].synth_ex = Some(Response(200, "wav"))
        /\ calls[c].result = "err"


\* C16: each tool's schema is fixed at startup.  The registration step builds
\* each engine's schema from the catalog snapshot and the default main holds
\* at that moment; from then on no step changes a registered tool, and no
\* GET /speakers is in flight or answered again, whatever calls are made and
\* whatever the engines and the config file do.
Serving == main_pc \in {"listen", "panicked"}

C16_SchemaFixedAtStartup ==
    [][/\ (main_pc = "fetch_aivis" /\ main_pc' = "listen")
           => /\ tools'["speak_voicevox"].input_schema =
                    build_speaker_choice_schema(
                        fetch_speakers(speakers_ex[VOICEVOX_PORT][1]),
                        config.voicevox_default_speaker)
              /\ tools'["speak_aivis"].input_schema =
                    build_speaker_choice_schema(
                        fetch_speakers(speakers_ex[AIVIS_PORT][1]),
                        config.aivis_default_speaker)
       /\ Serving
           => /\ tools' = tools
              /\ Serving'
              /\ speakers_ex = [p \in Ports |-> None]
              /\ speakers_ex' = speakers_ex]_vars

C16_Witness ==
    /\ main_pc = "listen"
    /\ ~Permissive(tools["speak_voicevox"].input_schema)
    /\ Permissive(tools["speak_aivis"].input_schema)
    /\ \E c \in DOMAIN calls : calls[c].pc = "returned" /\ calls[c].result = "ok"
    /\ load_config(fs) # config


\* ------------------------------------------------------------------------
\* C12, C18: the config loader
\* ------------------------------------------------------------------------
LoadStep == main_pc = "load_config" /\ main_pc' = "fetch_voicevox"

DispatchStep(c) == calls[c].pc = "idle" /\ calls'[c].pc = "audio_query"

PortKey(port, vvKey, aivisKey) == IF port = VOICEVOX_PORT THEN vvKey ELSE aivisKey

\* C12 as stated: when the config file is an object with field
\* voicevoxDefaultSpeaker = n (resp. aivisDefaultSpeaker = n) and a call to
\* that engine's tool omits the speaker, the speaker id sent is n.
C12_CamelCaseFieldGivesDefault ==
    [][\A c \in DOMAIN calls :
          (/\ DispatchStep(c)
           /\ calls'[c].speaker_arg = None
           /\ fs.has_home
           /\ fs.home.t = "object"
           /\ ObjField(fs.home.v, PortKey(calls'[c].port, "voicevoxDefaultSpeaker",
                                          "aivisDefaultSpeaker")) # None)
             => calls'[c].query_req[1].speaker =
                   ToString(ObjField(fs.home.v,
                                     PortKey(calls'[c].port, "voicevoxDefaultSpeaker",
                                             "aivisDefaultSpeaker"))[1])]_vars

\* C12 amended: the loader maps the fields voicevox_default_speaker and
\* aivis_default_speaker of the config file it reads at startup to the
\* per-engine defaults (fields under other names are ignored), and a call
\* that omits the speaker sends the default so loaded for its engine.
C12_SnakeCaseFieldGivesDefault ==
    [][/\ (LoadStep /\ fs.has_home /\ fs.home.t = "object")
           => /\ config'.voicevox_default_speaker =
                    ObjField(fs.home.v, "voicevox_default_speaker")
              /\ config'.aivis_default_speaker =
                    ObjField(fs.home.v, "aivis_default_speaker")
       /\ \A c \in DOMAIN calls :
             (/\ DispatchStep(c)
              /\ calls'[c].speaker_arg = None
              /\ ConfiguredDefault(calls'[c].port) # None)
                => calls'[c].query_req[1].speaker =
                      ToString(ConfiguredDefault(calls'[c].port)[1])]_vars

C12_Witness ==
    \E c \in DOMAIN calls :
        /\ fs.has_home
        /\ fs.home = ConfigObject("voicevox_default_speaker", Some(MaxSpeakerId),
                                  "aivis_default_speaker", Some(1))
           \/ fs.home = ConfigObject("voicevox_default_speaker", Some(MaxSpeakerId),
                                     "aivis_default_speaker", None)
        /\ config.voicevox_default_speaker = Some(MaxSpeakerId)
        /\ calls[c].pc = "audio_query"
        /\ calls[c].port = VOICEVOX_PORT
        /\ calls[c].speaker_arg = None
        /\ calls[c].query_req[1].speaker = ToString(MaxSpeakerId)

PrimaryFails(f) ==
    \/ read_to_string(f, get_config_path(f)) = None
    \/ AppConfig_from_str(read_to_string(f, get_config_path(f))[1]) = None

SecondaryUsable(f) ==
    /\ get_config_path(f) # "exe"
    /\ f.exe # Unreadable
    /\ f.exe.t = "object"

SpeakStep(c) == calls[c].pc = "idle" /\ calls'[c].say # None

HasVoiceArg(argv) == \E i \in 1..Len(argv) : argv[i] = "-v"

VoicePassed(argv) ==
    IF Len(argv) >= 3 /\ argv[2] = "-v" THEN Some(argv[3]) ELSE None

C14_NativeVoicePrecedence ==
    [][\A c \in DOMAIN calls :
          SpeakStep(c) =>
             LET argv == calls'[c].say[1].argv
                 requested == calls'[c].voice_arg
                 in_file == load_config(fs).macos_default_voice
             IN /\ requested # None => VoicePassed(argv) = requested
                /\ (requested = None /\ in_file # None) => VoicePassed(argv) = in_file
                /\ (requested = None /\ in_file = None) => ~HasVoiceArg(argv)]_vars

\* the file was edited after startup and the call passes the file's voice
C14_Witness ==
    \E c \in DOMAIN calls :
        /\ calls[c].say # None
        /\ calls[c].voice_arg = None
        /\ config.macos_default_voice = None
        /\ load_config(fs).macos_default_voice = Some("Otoya")
        /\ VoicePassed(calls[c].say[1].argv) = Some("Otoya")


\* ------------------------------------------------------------------------
\* C19, C20: two calls in flight
\* ------------------------------------------------------------------------
InPlayWav(c) == calls[c].pc = "play_wav"

\* C19: every play_wav call writes to a temporary file of its own, distinct
\* from that of any call running at the same time, and when play_wav
\* returns, with success or with any failure, that file no longer exists:
\* the temporary files on disk are exactly those of the calls inside
\* play_wav, one each, and the step that returns from play_wav removes the
\* file of the returning call.
C19_TempFileOwnedAndRemoved ==
    /\ [](/\ \A c \in DOMAIN calls : InPlayWav(c) <=> calls[c].tmp # None
          /\ \A c, d \in DOMAIN calls :
                (InPlayWav(c) /\ InPlayWav(d) /\ c # d) => calls[c].tmp # calls[d].tmp
          /\ tmpfiles = { calls[c].tmp[1] : c \in { d \in DOMAIN calls : InPlayWav(d) } })
    /\ [][\A c \in DOMAIN calls :
             (InPlayWav(c) /\ calls'[c].pc = "returned")
                => /\ calls[c].tmp[1] \in tmpfiles
                   /\ calls[c].tmp[1] \notin tmpfiles']_vars

\* both calls are inside play_wav, each with its own file
C19_Witness ==
    /\ \A c \in DOMAIN calls : InPlayWav(c)
    /\ Cardinality(tmpfiles) = 2

\* what a dispatch has to post to synthesis, from its own locals only
OwnSpeaker(call) ==
    IF call.speaker_arg # None THEN call.speaker_arg[1]
    ELSE IF call.default_speaker # None THEN call.default_speaker[1]
    ELSE FallbackSpeaker

OwnSpeed(call) == IF call.speed_arg # None THEN call.speed_arg[1] ELSE DefaultSpeedScale

\* C20: for any interleaving of two dispatches, each posts to synthesis the
\* document its own audio_query returned, with its own speaker and speed,
\* and plays the audio its own synthesis call returned; a step of one
\* dispatch leaves the other dispatch's request and result as they were.
C20_DispatchesIndependent ==
    /\ [](\A c \in DOMAIN calls :
            /\ calls[c].pc = "synthesis" =>
                  LET s == calls[c].synth_req[1]
                      doc == calls[c].query_ex[1].body
                  IN /\ s.port = calls[c].port
                     /\ s.speaker = ToString(OwnSpeaker(calls[c]))
                     /\ s.body.v["speedScale"] = OwnSpeed(calls[c])
                     /\ \A k \in FieldsOf(doc) \ {"speedScale"} : s.body.v[k] = doc.v[k]
            /\ InPlayWav(c) => calls[c].wav_data = Some(calls[c].synth_ex[1].body))
    /\ [][\A c, d \in DOMAIN calls :
             (c # d /\ calls'[c] # calls[c]) => calls'[d] = calls[d]]_vars

\* the two dispatches are interleaved and hold different documents and audio
C20_Witness ==
    /\ calls[1].pc = "play_wav"
    /\ calls[2].pc = "synthesis"
    /\ calls[1].wav_data = Some("wav")
    /\ calls[2].query_ex[1].body = AudioQueryDoc
    /\ calls[1].query_ex[1].body = ErrorDetail
    /\ calls[2].port = AIVIS_PORT
    /\ calls[2].speed_arg = Some(15)
    /\ calls[2].synth_req[1].body.v["speedScale"] = 15

====
